---- MODULE Spec2Model ----
(***************************************************************************)
(* The reactive update graph of the neighborhood traffic flow dashboard.   *)
(*                                                                         *)
(* Two application variants are modelled, chosen by the variable           *)
(* `variant`:                                                              *)
(*   "main"  - src/neighborhoodtrafficflow/app.py                          *)
(*   "proto" - src/neighborhood-traffic-flow/app.py (definitions with the  *)
(*             prefix ntf_)                                                *)
(*                                                                         *)
(* The state is the property values of the layout's components (the       *)
(* controls and the callback outputs) and the set of callbacks the         *)
(* framework still has to run.  Each @APP.callback function is a pure      *)
(* operator returning a Result (a value or the exception it raises), and   *)
(* one action that runs it on the current input properties.  A user event  *)
(* changes one control property; it is processed once the callbacks of    *)
(* the previous event have completed (spec section 5).                     *)
(*                                                                         *)
(* The figure builders (figures/maps.py, figures/charts.py) are pure       *)
(* functions of their arguments and the startup datasets: a figure is      *)
(* represented by the builder's name and the arguments it was called with. *)
(***************************************************************************)
EXTENDS Integers, FiniteSets, Sequences, TLC

VARIABLES
    variant,       \* which app.py is running
    dropdown,      \* dropdown.value
    radio,         \* radio.value
    slider,        \* slider.value
    toggle,        \* toggle.value (proto only)
    selectedData,  \* selectedData of the neighborhood map graph
    out,           \* the other callback outputs: property -> value
    err,           \* callback -> exception raised by its latest run ("none")
    pending        \* callbacks the framework has yet to run

vars == <<variant, dropdown, radio, slider, toggle, selectedData, out, err, pending>>

----------------------------------------------------------------------------
(* Bounds and program constants *)

\* user-selectable neighborhoods are 0..MaxNbhd and the fallback
MaxNbhd == 0

\* len(NAMES): neighborhoods are 0-102
NUM == 103
\* University District
Fallback == 92
YearMin == 2007
YearMax == 2018

----------------------------------------------------------------------------
(* Python values *)

PyNone == [ty |-> "none", n |-> 0]
PyInt(i) == [ty |-> "int", n |-> i]
\* the decimal string of i, e.g. '92'
PyStr(i) == [ty |-> "str", n |-> i]
\* an argument left out of a call: the builder's own default
PyDefault == [ty |-> "default", n |-> 0]

\* str(v) for an int v
Str(v) == IF v.ty = "int" THEN PyStr(v.n) ELSE v

Return(v) == [exc |-> "none", val |-> v]
Raise(e) == [exc |-> e, val |-> PyNone]

\* obj[key] on a Python object of type obj.ty; obj.has says whether the key
\* (or index 0) is present.  Returns the exception raised, or "none".
GetItem(obj, keyIsStr) ==
    CASE obj.ty = "dict" -> IF obj.has THEN "none" ELSE "KeyError"
      [] obj.ty = "list" -> IF keyIsStr THEN "TypeError"
                            ELSE IF obj.has THEN "none" ELSE "IndexError"
      [] OTHER -> "TypeError"

Obj(ty, has) == [ty |-> ty, has |-> has]
Absent == Obj("NoneType", FALSE)

\* selectedData payloads: the object, its 'points', points[0], and
\* points[0]['pointIndex']
Payload(sd, points, first, pointIndex) ==
    [sd |-> sd, points |-> points, first |-> first, pointIndex |-> pointIndex]

\* None
SdNone == Payload(Absent, Absent, Absent, PyNone)
\* {}
SdNoPoints == Payload(Obj("dict", FALSE), Absent, Absent, PyNone)
\* {'points': None}
SdPointsNone == Payload(Obj("dict", TRUE), Absent, Absent, PyNone)
\* {'points': []}
SdPointsEmpty == Payload(Obj("dict", TRUE), Obj("list", FALSE), Absent, PyNone)
\* {'points': [{}]}
SdNoPointIndex ==
    Payload(Obj("dict", TRUE), Obj("list", TRUE), Obj("dict", FALSE), PyNone)
\* {'points': [{'pointIndex': i}]}
SdClick(i) ==
    Payload(Obj("dict", TRUE), Obj("list", TRUE), Obj("dict", TRUE), PyInt(i))

Clickable == 0..MaxNbhd
DropdownChoices == Clickable \cup {Fallback}
YearChoices == {YearMin, YearMax}
MapTypes == {"flow", "speed", "road"}
SelectedDataChoices ==
    {SdNone, SdNoPoints, SdPointsNone, SdPointsEmpty, SdNoPointIndex}
    \cup {SdClick(i) : i \in Clickable}

\* selected_data['points'][0]['pointIndex']
PointIndexOf(selected_data) ==
    LET e1 == GetItem(selected_data.sd, TRUE)
        e2 == GetItem(selected_data.points, FALSE)
        e3 == GetItem(selected_data.first, TRUE)
    IN  IF e1 # "none" THEN Raise(e1)
        ELSE IF e2 # "none" THEN Raise(e2)
        ELSE IF e3 # "none" THEN Raise(e3)
        ELSE Return(selected_data.pointIndex)

\* NAMES[neighborhood]: the index of the name, or the exception
NamesGetItem(neighborhood) ==
    IF neighborhood.ty # "int" THEN Raise("TypeError")
    ELSE IF neighborhood.n < -NUM \/ neighborhood.n >= NUM THEN Raise("IndexError")
    ELSE Return(PyInt(neighborhood.n % NUM))

----------------------------------------------------------------------------
(* Output values: figures, titles, styles, asset urls *)

Value(fn, nbhd, map_type, year, mapbox, text) ==
    [fn |-> fn, nbhd |-> nbhd, map_type |-> map_type, year |-> year,
     mapbox |-> mapbox, text |-> text]

\* figures.maps / figures.charts (main variant)
neighborhood_map(selected) ==
    Value("neighborhood_map", selected, "-", 0, "-", "-")
road_map(neighborhood, map_type, year) ==
    Value("road_map", neighborhood, map_type, year, "-", "-")
traffic_flow_counts(neighborhood) ==
    Value("traffic_flow_counts", neighborhood, "-", 0, "-", "-")
speed_limits(neighborhood) ==
    Value("speed_limits", neighborhood, "-", 0, "-", "-")
road_types(neighborhood) ==
    Value("road_types", neighborhood, "-", 0, "-", "-")

\* figures (proto variant)
traffic_flow_map(neighborhood, mapbox, map_type, year) ==
    Value("traffic_flow_map", neighborhood, map_type, year, mapbox, "-")
traffic_flow_chart(neighborhood, map_type) ==
    Value("traffic_flow_chart", neighborhood, map_type, 0, "-", "-")

\* NAMES[i] + suffix
Title(name, suffix) == Value("title", name, "-", 0, "-", suffix)
\* a string literal of the layout
Text(s) == Value("text", PyDefault, "-", 0, "-", s)
\* {'display': d}
Style(d) == Value("style", PyDefault, "-", 0, "-", d)
\* a component built without a style
NoStyle == Value("style", PyDefault, "-", 0, "-", "unset")
\* APP.get_asset_url(file)
AssetUrl(file) == Value("asset_url", PyDefault, "-", 0, "-", file)

Bool(b) == IF b THEN "True" ELSE "False"

----------------------------------------------------------------------------
(* The callback table: the decorators of app.py *)

MainCallbacks ==
    {"update_road_map_title", "update_flow_count_title",
     "update_speed_limit_title", "update_road_type_title",
     "update_dropdown", "update_slider", "update_neighborhood_map",
     "update_road_map", "update_traffic_flow_counts", "update_speed_limits",
     "update_road_types"}

ProtoCallbacks ==
    {"ntf_update_neighborhood_map", "ntf_update_traffic_flow_map",
     "ntf_update_traffic_flow_chart", "ntf_update_dropdown",
     "ntf_update_legend"}

Callbacks(v) == IF v = "main" THEN MainCallbacks ELSE ProtoCallbacks

\* Output(component, property) of each callback
Output(c) ==
    CASE c = "update_road_map_title" -> "roadMapTitle.children"
      [] c = "update_flow_count_title" -> "flowCountTitle.children"
      [] c = "update_speed_limit_title" -> "speedLimitTitle.children"
      [] c = "update_road_type_title" -> "roadTypeTitle.children"
      [] c = "update_dropdown" -> "dropdown.value"
      [] c = "update_slider" -> "sliderContainer.style"
      [] c = "update_neighborhood_map" -> "neighborhoodMapFigure.figure"
      [] c = "update_road_map" -> "roadMapFigure.figure"
      [] c = "update_traffic_flow_counts" -> "flowCountFigure.figure"
      [] c = "update_speed_limits" -> "speedLimitFigure.figure"
      [] c = "update_road_types" -> "roadTypeFigure.figure"
      [] c = "ntf_update_neighborhood_map" -> "neighborhoodMap.figure"
      [] c = "ntf_update_traffic_flow_map" -> "trafficFlowMap.figure"
      [] c = "ntf_update_traffic_flow_chart" -> "trafficFlowChart.figure"
      [] c = "ntf_update_dropdown" -> "dropdown.value"
      [] c = "ntf_update_legend" -> "legend.src"

\* Inputs with update_road_map lacking Input('slider', 'value')
Inputs_road_map_no_slider(c) ==
    CASE c \in {"update_road_map_title", "update_flow_count_title",
                "update_speed_limit_title", "update_road_type_title",
                "update_neighborhood_map", "update_traffic_flow_counts",
                "update_speed_limits", "update_road_types",
                "ntf_update_neighborhood_map",
                "ntf_update_traffic_flow_chart"} -> {"dropdown.value"}
      [] c = "update_dropdown" -> {"neighborhoodMapFigure.selectedData"}
      [] c = "ntf_update_dropdown" -> {"neighborhoodMap.selectedData"}
      [] c \in {"update_slider", "ntf_update_legend"} -> {"radio.value"}
      [] c = "update_road_map" -> {"dropdown.value", "radio.value"}
      [] c = "ntf_update_traffic_flow_map" ->
            {"dropdown.value", "toggle.value", "radio.value", "slider.value"}

\* Inputs with the neighborhood map wired to its own selectedData instead
\* of to the dropdown
Inputs_map_reads_selection(c) ==
    CASE c \in {"update_road_map_title", "update_flow_count_title",
                "update_speed_limit_title", "update_road_type_title",
                "update_traffic_flow_counts",
                "update_speed_limits", "update_road_types",
                "ntf_update_neighborhood_map",
                "ntf_update_traffic_flow_chart"} -> {"dropdown.value"}
      [] c \in {"update_dropdown", "update_neighborhood_map"} ->
            {"neighborhoodMapFigure.selectedData"}
      [] c = "ntf_update_dropdown" -> {"neighborhoodMap.selectedData"}
      [] c \in {"update_slider", "ntf_update_legend"} -> {"radio.value"}
      [] c = "update_road_map" ->
            {"dropdown.value", "radio.value", "slider.value"}
      [] c = "ntf_update_traffic_flow_map" ->
            {"dropdown.value", "toggle.value", "radio.value", "slider.value"}

\* [Input(component, property), ...] of each callback
Inputs(c) ==
    CASE c \in {"update_road_map_title", "update_flow_count_title",
                "update_speed_limit_title", "update_road_type_title",
                "update_neighborhood_map", "update_traffic_flow_counts",
                "update_speed_limits", "update_road_types",
                "ntf_update_neighborhood_map",
                "ntf_update_traffic_flow_chart"} -> {"dropdown.value"}
      [] c = "update_dropdown" -> {"neighborhoodMapFigure.selectedData"}
      [] c = "ntf_update_dropdown" -> {"neighborhoodMap.selectedData"}
      [] c \in {"update_slider", "ntf_update_legend"} -> {"radio.value"}
      [] c = "update_road_map" ->
            {"dropdown.value", "radio.value", "slider.value"}
      [] c = "ntf_update_traffic_flow_map" ->
            {"dropdown.value", "toggle.value", "radio.value", "slider.value"}

\* the properties held in `out` (every output but dropdown.value)
OutProps(v) == {Output(c) : c \in Callbacks(v)} \ {"dropdown.value"}

\* the value each output property is given by APP.layout
Layout(p) ==
    CASE p = "roadMapTitle.children" -> Text("Neighborhood Roads")
      [] p = "flowCountTitle.children" -> Text("Neighborhood Flow Counts")
      [] p = "speedLimitTitle.children" -> Text("Neighborhood Speed Limits")
      [] p = "roadTypeTitle.children" -> Text("Neighborhood Road Types")
      [] p = "sliderContainer.style" -> NoStyle
      [] p = "neighborhoodMapFigure.figure" -> neighborhood_map(PyDefault)
      [] p = "roadMapFigure.figure" -> road_map(PyDefault, "default", 0)
      [] p = "flowCountFigure.figure" -> traffic_flow_counts(PyDefault)
      [] p = "speedLimitFigure.figure" -> speed_limits(PyDefault)
      [] p = "roadTypeFigure.figure" -> road_types(PyDefault)
      [] p = "neighborhoodMap.figure" -> neighborhood_map(PyDefault)
      [] p = "trafficFlowMap.figure" ->
            traffic_flow_map(PyDefault, "default", "default", 0)
      [] p = "trafficFlowChart.figure" -> traffic_flow_chart(PyDefault, "default")
      [] p = "legend.src" -> AssetUrl("flowLabel.png")

\* dcc.Dropdown(value=...) of the layout
LayoutDropdown(v) == IF v = "main" THEN PyInt(Fallback) ELSE PyStr(Fallback)

\* the callbacks that have property p as an Input
Dependents(v, p) == {c \in Callbacks(v) : p \in Inputs(c)}

\* a callback waits while one of its inputs is the output of a callback
\* still to run
Blocked(c) == \E d \in pending \ {c} : Output(d) \in Inputs(c)

----------------------------------------------------------------------------
(* The callback functions of the main variant *)

update_road_map_title(neighborhood) ==
    LET name == NamesGetItem(neighborhood)
    IN  IF name.exc # "none" THEN Raise(name.exc)
        ELSE Return(Title(name.val, " Roads"))

\* the title with the suffix of the road map's title
update_flow_count_title_roads(neighborhood) ==
    LET name == NamesGetItem(neighborhood)
    IN  IF name.exc # "none" THEN Raise(name.exc)
        ELSE Return(Title(name.val, " Roads"))

update_flow_count_title(neighborhood) ==
    LET name == NamesGetItem(neighborhood)
    IN  IF name.exc # "none" THEN Raise(name.exc)
        ELSE Return(Title(name.val, " Flow Counts"))

update_speed_limit_title(neighborhood) ==
    LET name == NamesGetItem(neighborhood)
    IN  IF name.exc # "none" THEN Raise(name.exc)
        ELSE Return(Title(name.val, " Speed Limits"))

update_road_type_title(neighborhood) ==
    LET name == NamesGetItem(neighborhood)
    IN  IF name.exc # "none" THEN Raise(name.exc)
        ELSE Return(Title(name.val, " Road Types"))

\* update_dropdown falling back to the first neighborhood instead of 92
update_dropdown_falls_back_to_first(selected_data) ==
    LET r == PointIndexOf(selected_data)
    IN  IF r.exc = "TypeError" THEN Return(PyInt(0)) ELSE r

\* update_dropdown with `except KeyError` in place of `except TypeError`
update_dropdown_except_keyerror(selected_data) ==
    LET r == PointIndexOf(selected_data)
    IN  IF r.exc = "KeyError" THEN Return(PyInt(Fallback)) ELSE r

\* try: return selected_data['points'][0]['pointIndex']
\* except TypeError: return 92
update_dropdown(selected_data) ==
    LET r == PointIndexOf(selected_data)
    IN  IF r.exc = "TypeError" THEN Return(PyInt(Fallback)) ELSE r

\* update_slider hiding the slider for 'speed' alone
update_slider_speed_only(map_type) ==
    IF map_type = "speed" THEN Return(Style("none")) ELSE Return(Style("inline"))

update_slider(map_type) ==
    IF map_type = "flow" THEN Return(Style("inline")) ELSE Return(Style("none"))

update_neighborhood_map(neighborhood) == Return(neighborhood_map(neighborhood))

\* update_road_map passing no map type on to road_map
update_road_map_no_type(neighborhood, map_type, year) ==
    Return(road_map(neighborhood, "default", year))

update_road_map(neighborhood, map_type, year) ==
    Return(road_map(neighborhood, map_type, year))

update_traffic_flow_counts(neighborhood) ==
    Return(traffic_flow_counts(neighborhood))

\* update_speed_limits passing no neighborhood on to speed_limits
update_speed_limits_no_selection(neighborhood) == Return(speed_limits(PyDefault))

update_speed_limits(neighborhood) == Return(speed_limits(neighborhood))

update_road_types(neighborhood) == Return(road_types(neighborhood))

(* The callback functions of the proto variant *)

ntf_update_neighborhood_map(neighborhood) ==
    Return(neighborhood_map(neighborhood))

ntf_update_traffic_flow_map(neighborhood, mapbox, map_type, year) ==
    Return(traffic_flow_map(neighborhood, mapbox, map_type, year))

\* map_type keeps its default "flow": the callback has one Input
ntf_update_traffic_flow_chart(neighborhood) ==
    Return(traffic_flow_chart(neighborhood, "flow"))

\* ntf_update_dropdown returning the index as it is, without str()
ntf_update_dropdown_no_str(selected_data) ==
    LET r == PointIndexOf(selected_data)
    IN  IF r.exc = "TypeError" THEN Return(PyStr(Fallback)) ELSE r

\* try: return str(selected_data['points'][0]['pointIndex'])
\* except TypeError: return '92'
ntf_update_dropdown(selected_data) ==
    LET r == PointIndexOf(selected_data)
    IN  IF r.exc = "TypeError" THEN Return(PyStr(Fallback))
        ELSE IF r.exc = "none" THEN Return(Str(r.val))
        ELSE r

ntf_update_legend(map_type) ==
    IF map_type = "flow" THEN Return(AssetUrl("flowLabel.png"))
    ELSE IF map_type = "speed" THEN Return(AssetUrl("speedLabel.png"))
    ELSE Return(AssetUrl("roadLabel.png"))

----------------------------------------------------------------------------
(* Running a callback: the framework calls the function on the current     *)
(* values of its Inputs, assigns the result to its Output and schedules    *)
(* the callbacks that have this Output as an Input.  A callback that       *)
(* raises leaves its Output as it was.                                     *)

Ready(c) == c \in Callbacks(variant) /\ c \in pending /\ ~Blocked(c)

\* Run with a fault ending the whole event: the callbacks still to run for
\* it are dropped
Run_fault_aborts(c, res) ==
    /\ Ready(c)
    /\ err' = [err EXCEPT ![c] = res.exc]
    /\ IF res.exc = "none"
       THEN /\ out' = [out EXCEPT ![Output(c)] = res.val]
            /\ pending' = (pending \ {c}) \cup Dependents(variant, Output(c))
       ELSE /\ out' = out
            /\ pending' = {}
    /\ UNCHANGED <<variant, dropdown, radio, slider, toggle, selectedData>>

\* a callback whose Output is held in `out`
Run(c, res) ==
    /\ Ready(c)
    /\ err' = [err EXCEPT ![c] = res.exc]
    /\ IF res.exc = "none"
       THEN /\ out' = [out EXCEPT ![Output(c)] = res.val]
            /\ pending' = (pending \ {c}) \cup Dependents(variant, Output(c))
       ELSE /\ out' = out
            /\ pending' = pending \ {c}
    /\ UNCHANGED <<variant, dropdown, radio, slider, toggle, selectedData>>

\* a callback whose Output is dropdown.value
RunDropdown(c, res) ==
    /\ Ready(c)
    /\ err' = [err EXCEPT ![c] = res.exc]
    /\ IF res.exc = "none"
       THEN /\ dropdown' = res.val
            /\ pending' = (pending \ {c}) \cup Dependents(variant, Output(c))
       ELSE /\ dropdown' = dropdown
            /\ pending' = pending \ {c}
    /\ UNCHANGED <<variant, radio, slider, toggle, selectedData, out>>

\* update_slider putting the slider back to its initial year as it hides it
SliderStyle_resets_year ==
    LET res == update_slider(radio)
    IN  /\ Ready("update_slider")
        /\ err' = [err EXCEPT !["update_slider"] = res.exc]
        /\ out' = [out EXCEPT !["sliderContainer.style"] = res.val]
        /\ pending' = pending \ {"update_slider"}
        /\ slider' = IF res.val = Style("none") THEN YearMax ELSE slider
        /\ UNCHANGED <<variant, dropdown, radio, toggle, selectedData>>

RoadMapTitle == Run("update_road_map_title", update_road_map_title(dropdown))
FlowCountTitle == Run("update_flow_count_title", update_flow_count_title(dropdown))
SpeedLimitTitle == Run("update_speed_limit_title", update_speed_limit_title(dropdown))
RoadTypeTitle == Run("update_road_type_title", update_road_type_title(dropdown))
DropdownFromMap == RunDropdown("update_dropdown", update_dropdown(selectedData))
SliderStyle == Run("update_slider", update_slider(radio))
NeighborhoodMap == Run("update_neighborhood_map", update_neighborhood_map(dropdown))
RoadMap == Run("update_road_map", update_road_map(dropdown, radio, slider))
FlowCounts == Run("update_traffic_flow_counts", update_traffic_flow_counts(dropdown))
SpeedLimits == Run("update_speed_limits", update_speed_limits(dropdown))
RoadTypes == Run("update_road_types", update_road_types(dropdown))

NtfNeighborhoodMap ==
    Run("ntf_update_neighborhood_map", ntf_update_neighborhood_map(dropdown))
NtfTrafficFlowMap ==
    Run("ntf_update_traffic_flow_map",
        ntf_update_traffic_flow_map(dropdown, Bool(toggle), radio, slider))
NtfTrafficFlowChart ==
    Run("ntf_update_traffic_flow_chart", ntf_update_traffic_flow_chart(dropdown))
NtfDropdownFromMap ==
    RunDropdown("ntf_update_dropdown", ntf_update_dropdown(selectedData))
NtfLegend == Run("ntf_update_legend", ntf_update_legend(radio))

Callback ==
    \/ RoadMapTitle
    \/ FlowCountTitle
    \/ SpeedLimitTitle
    \/ RoadTypeTitle
    \/ DropdownFromMap
    \/ SliderStyle
    \/ NeighborhoodMap
    \/ RoadMap
    \/ FlowCounts
    \/ SpeedLimits
    \/ RoadTypes
    \/ NtfNeighborhoodMap
    \/ NtfTrafficFlowMap
    \/ NtfTrafficFlowChart
    \/ NtfDropdownFromMap
    \/ NtfLegend

----------------------------------------------------------------------------
(* User events: the user changes the property of one control, and the      *)
(* framework schedules the callbacks that have it as an Input.             *)

Settled == pending = {}

\* the option value of neighborhood i: an int in main, a string in proto
OptionValue(i) == IF variant = "main" THEN PyInt(i) ELSE PyStr(i)

SelectDropdown ==
    /\ Settled
    /\ \E i \in DropdownChoices :
          /\ OptionValue(i) # dropdown
          /\ dropdown' = OptionValue(i)
    /\ pending' = Dependents(variant, "dropdown.value")
    /\ UNCHANGED <<variant, radio, slider, toggle, selectedData, out, err>>

\* the dropdown is clearable: its x button sets the value to None
ClearDropdown ==
    /\ Settled
    /\ dropdown # PyNone
    /\ dropdown' = PyNone
    /\ pending' = Dependents(variant, "dropdown.value")
    /\ UNCHANGED <<variant, radio, slider, toggle, selectedData, out, err>>

SelectRadio ==
    /\ Settled
    /\ \E t \in MapTypes : t # radio /\ radio' = t
    /\ pending' = Dependents(variant, "radio.value")
    /\ UNCHANGED <<variant, dropdown, slider, toggle, selectedData, out, err>>

MoveSlider ==
    /\ Settled
    /\ \E y \in YearChoices : y # slider /\ slider' = y
    /\ pending' = Dependents(variant, "slider.value")
    /\ UNCHANGED <<variant, dropdown, radio, toggle, selectedData, out, err>>

SwitchToggle ==
    /\ Settled
    /\ variant = "proto"
    /\ toggle' = ~toggle
    /\ pending' = Dependents(variant, "toggle.value")
    /\ UNCHANGED <<variant, dropdown, radio, slider, selectedData, out, err>>

\* a click or selection on the neighborhood map
SelectOnMap ==
    /\ Settled
    /\ \E sd \in SelectedDataChoices : sd # selectedData /\ selectedData' = sd
    /\ pending' = Dependents(variant,
                     IF variant = "main" THEN "neighborhoodMapFigure.selectedData"
                     ELSE "neighborhoodMap.selectedData")
    /\ UNCHANGED <<variant, dropdown, radio, slider, toggle, out, err>>

UserEvent ==
    \/ SelectDropdown
    \/ ClearDropdown
    \/ SelectRadio
    \/ MoveSlider
    \/ SwitchToggle
    \/ SelectOnMap

----------------------------------------------------------------------------

\* the page as served: the layout's values, every callback to run once
Init ==
    /\ variant \in {"main", "proto"}
    /\ dropdown = LayoutDropdown(variant)
    /\ radio = "flow"
    /\ slider = YearMax
    /\ toggle = FALSE
    /\ selectedData = SdNone
    /\ out = [p \in OutProps(variant) |-> Layout(p)]
    /\ err = [c \in Callbacks(variant) |-> "none"]
    /\ pending = Callbacks(variant)

Next == Callback \/ UserEvent

Spec == Init /\ [][Next]_vars

\* every scheduled callback is eventually run
LiveSpec == Spec /\ WF_vars(Callback)

----------------------------------------------------------------------------
(* Vocabulary of the properties *)

\* the callback that writes dropdown.value, and the property it reads
DropdownCb == IF variant = "main" THEN "update_dropdown" ELSE "ntf_update_dropdown"
SelectedDataProp ==
    IF variant = "main" THEN "neighborhoodMapFigure.selectedData"
    ELSE "neighborhoodMap.selectedData"

\* the fallback id as the variant writes it: 92, or '92'
FallbackValue == IF variant = "main" THEN PyInt(Fallback) ELSE PyStr(Fallback)

\* this step is a run of the callback that writes dropdown.value
RanDropdownCb == DropdownCb \in pending /\ DropdownCb \notin pending'

\* payloads lacking an expected field
MissingField == {SdNoPoints, SdPointsEmpty, SdNoPointIndex}
\* payloads whose index extraction meets a value of the wrong type
TypeMismatch == {SdNone, SdPointsNone}

\* v is the id of a neighborhood
ValidId(v) == v.ty \in {"int", "str"} /\ v.n \in 0..(NUM - 1)

\* every dropdown-dependent output is the one computed from dropdown value v
OutputsReflect(v) ==
    IF variant = "main"
    THEN /\ out["neighborhoodMapFigure.figure"] = neighborhood_map(v)
         /\ out["roadMapFigure.figure"].fn = "road_map"
         /\ out["roadMapFigure.figure"].nbhd = v
         /\ out["flowCountFigure.figure"] = traffic_flow_counts(v)
         /\ out["speedLimitFigure.figure"] = speed_limits(v)
         /\ out["roadTypeFigure.figure"] = road_types(v)
         /\ out["roadMapTitle.children"] = Title(PyInt(v.n), " Roads")
         /\ out["flowCountTitle.children"] = Title(PyInt(v.n), " Flow Counts")
         /\ out["speedLimitTitle.children"] = Title(PyInt(v.n), " Speed Limits")
         /\ out["roadTypeTitle.children"] = Title(PyInt(v.n), " Road Types")
    ELSE /\ out["neighborhoodMap.figure"] = neighborhood_map(v)
         /\ out["trafficFlowMap.figure"].fn = "traffic_flow_map"
         /\ out["trafficFlowMap.figure"].nbhd = v
         /\ out["trafficFlowChart.figure"] = traffic_flow_chart(v, "flow")

----------------------------------------------------------------------------
(* C1: for every map-selection payload that lacks an expected field (no    *)
(* 'points', an empty 'points' list, a first point without 'pointIndex'),  *)
(* the run of update_dropdown does not raise and sets the dropdown to the  *)
(* fallback id, in both variants.                                          *)
C1_MissingFieldFallsBack ==
    [][(RanDropdownCb /\ selectedData \in MissingField)
         => (err'[DropdownCb] = "none" /\ dropdown' = FallbackValue)]_vars

(* C2: when selectedData is null, or a value whose index extraction fails  *)
(* with a type mismatch, the run of update_dropdown does not raise and     *)
(* sets the dropdown to the fallback id: 92, '92' in the string-valued     *)
(* variant.                                                                *)
C2_TypeMismatchFallsBack ==
    [][(RanDropdownCb /\ selectedData \in TypeMismatch)
         => (err'[DropdownCb] = "none" /\ dropdown' = FallbackValue)]_vars

\* the dropdown was set to another neighborhood; then a selection whose
\* 'points' is null arrived and update_dropdown has run on it
C2_Witness ==
    /\ selectedData = SdPointsNone
    /\ DropdownCb \notin pending
    /\ err[DropdownCb] = "none"
    /\ dropdown = FallbackValue
    /\ variant = "proto"
    /\ out["neighborhoodMap.figure"] = neighborhood_map(PyStr(0))

(* C3: whenever the dropdown value is a neighborhood id N and no callback  *)
(* is pending, every dropdown-dependent output was computed from N: the    *)
(* neighborhood map, the road map, the three charts, and the four titles   *)
(* NAMES[N] + ' Roads', ' Flow Counts', ' Speed Limits', ' Road Types'.    *)
C3_SettledOutputsReflectDropdown ==
    (Settled /\ ValidId(dropdown)) => OutputsReflect(dropdown)

\* settled on a neighborhood other than the initial one
C3_Witness ==
    /\ Settled
    /\ variant = "main"
    /\ dropdown = PyInt(0)
    /\ out["roadTypeTitle.children"] = Title(PyInt(0), " Road Types")

\* selectedData is a click that resolves to a feature index
IsClick(sd) == PointIndexOf(sd).exc = "none"

(* C4: a click on the neighborhood map that resolves to feature index N    *)
(* sets the dropdown to N; no callback ever schedules update_dropdown      *)
(* again; and from the click the cascade terminates: eventually no         *)
(* callback is pending and every dropdown-dependent figure and title       *)
(* reflects N.                                                             *)
C4_ClickCascadeTerminates ==
    /\ [][(RanDropdownCb /\ IsClick(selectedData))
            => dropdown' = OptionValue(selectedData.pointIndex.n)]_vars
    /\ [][(~Settled /\ DropdownCb \in pending') => DropdownCb \in pending]_vars
    /\ \A i \in Clickable :
          (selectedData = SdClick(i) /\ DropdownCb \in pending)
             ~> (Settled /\ dropdown = OptionValue(i)
                   /\ OutputsReflect(OptionValue(i)))

\* the cascade of a click on neighborhood 0 has run to its end
C4_Witness ==
    /\ selectedData = SdClick(0)
    /\ Settled
    /\ variant = "main"
    /\ dropdown = PyInt(0)
    /\ OutputsReflect(PyInt(0))

----------------------------------------------------------------------------
(* The property-level dependency graph: an edge from each Input of a       *)
(* callback to its Output.                                                 *)

Props == UNION {Inputs(c) \cup {Output(c)} : c \in Callbacks(variant)}
Successors(S) ==
    {Output(c) : c \in {d \in Callbacks(variant) : Inputs(d) \cap S # {}}}

RECURSIVE ReachableIn(_, _)
\* the properties reached from those of S by at most k further edges
ReachableIn(S, k) ==
    IF k = 0 THEN S ELSE ReachableIn(S \cup Successors(S), k - 1)

Acyclic ==
    \A p \in Props : p \notin ReachableIn(Successors({p}), Cardinality(Props))

\* the callback that writes `out` property p
Producer(p) == CHOOSE c \in Callbacks(variant) : Output(c) = p

(* C5: the dropdown is the single source of truth for the selected         *)
(* neighborhood.  update_dropdown is the only callback with the map's      *)
(* selectedData as Input and its Output is dropdown.value; no other        *)
(* callback has dropdown.value as Output, and the dropdown value changes   *)
(* only by a user's choice or a run of update_dropdown; every output that  *)
(* is given a neighborhood-dependent value is written by a callback that   *)
(* has dropdown.value (and not selectedData) as Input, from the dropdown's *)
(* value; the dependency graph has no cycle.  (The callback table is that  *)
(* of the variant, which never changes: it is examined in the initial      *)
(* states.)                                                                *)
C5_DropdownSingleSourceOfTruth ==
    /\ \A c \in Callbacks(variant) :
          /\ (SelectedDataProp \in Inputs(c)) <=> (c = DropdownCb)
          /\ (Output(c) = "dropdown.value") <=> (c = DropdownCb)
    /\ Acyclic
    /\ [][variant' = variant]_vars
    /\ [][dropdown' # dropdown => (Settled \/ RanDropdownCb)]_vars
    /\ [][\A p \in OutProps(variant) :
            (out'[p] # out[p] /\ out'[p].nbhd # PyDefault)
               => /\ "dropdown.value" \in Inputs(Producer(p))
                  /\ SelectedDataProp \notin Inputs(Producer(p))
                  /\ out'[p].nbhd \in {dropdown, PyInt(dropdown.n)}]_vars

\* a map click has reached a figure, through the dropdown
C5_Witness ==
    /\ variant = "main"
    /\ selectedData = SdClick(0)
    /\ dropdown = PyInt(0)
    /\ out["neighborhoodMapFigure.figure"] = neighborhood_map(PyInt(0))
    /\ "update_road_map" \in pending

----------------------------------------------------------------------------
\* the figures and titles that show the selected neighborhood
NbhdOutputs ==
    IF variant = "main"
    THEN {"neighborhoodMapFigure.figure", "roadMapFigure.figure",
          "flowCountFigure.figure", "speedLimitFigure.figure",
          "roadTypeFigure.figure", "roadMapTitle.children",
          "flowCountTitle.children", "speedLimitTitle.children",
          "roadTypeTitle.children"}
    ELSE {"neighborhoodMap.figure", "trafficFlowMap.figure",
          "trafficFlowChart.figure"}

\* output p shows the neighborhood of dropdown value v
ShowsNbhd(p, v) ==
    IF out[p].fn = "title" THEN out[p].nbhd = PyInt(v.n) ELSE out[p].nbhd = v

(* C6 as claimed: recomputation is atomic, no state shows one              *)
(* dropdown-dependent output computed from one neighborhood id and another *)
(* computed from a different one.                                          *)
C6_AtomicRecomputation ==
    \A p, q \in NbhdOutputs :
        (ValidId(out[p].nbhd) /\ ValidId(out[q].nbhd))
           => out[p].nbhd.n = out[q].nbhd.n

(* C6 as amended: each output is written by its own callback, one at a     *)
(* time; whenever the dropdown value is a neighborhood id N, every         *)
(* dropdown-dependent output whose callback is not pending shows N, so     *)
(* only outputs whose callback is still pending can show the previous      *)
(* neighborhood.                                                           *)
C6_OnlyPendingOutputsAreStale ==
    ValidId(dropdown) =>
        \A p \in NbhdOutputs : Producer(p) \notin pending => ShowsNbhd(p, dropdown)

\* in the middle of a cascade: one chart updated, one still to run
C6_Witness ==
    /\ variant = "main"
    /\ dropdown = PyInt(0)
    /\ "update_speed_limits" \notin pending
    /\ out["speedLimitFigure.figure"] = speed_limits(PyInt(0))
    /\ "update_road_types" \in pending
    /\ out["roadTypeFigure.figure"] = road_types(PyInt(Fallback))

----------------------------------------------------------------------------
\* the style of the slider's container; the proto layout puts the slider
\* in no container of its own and gives it no style
SliderContainerStyle ==
    IF "sliderContainer.style" \in DOMAIN out THEN out["sliderContainer.style"]
    ELSE NoStyle

SliderDisplayed == SliderContainerStyle.text # "none"

(* C7 as claimed: in every variant, once callbacks have settled the year   *)
(* slider is displayed if and only if the map type is 'flow'.              *)
C7_SliderShownIffFlow == Settled => (SliderDisplayed <=> radio = "flow")

(* C7 as amended: in the main variant, once callbacks have settled the     *)
(* slider container's style is display 'inline' when the map type is       *)
(* 'flow' and 'none' when it is 'speed' or 'road'; the proto variant has   *)
(* no slider container and its slider is displayed for every map type.     *)
C7_MainSliderShownIffFlow ==
    Settled =>
        IF variant = "main"
        THEN SliderContainerStyle = Style(IF radio = "flow" THEN "inline" ELSE "none")
        ELSE SliderDisplayed

\* hidden after one radio change, shown again after another
C7_Witness ==
    /\ Settled
    /\ variant = "main"
    /\ radio = "flow"
    /\ SliderContainerStyle = Style("inline")
    /\ out["roadMapFigure.figure"].map_type = "flow"
    /\ slider = YearMin

(* C8: no callback writes the radio or the slider value; a dropdown change *)
(* or a map click leaves map type and year unchanged; a radio change, and  *)
(* the callbacks it triggers (one of which hides the slider), leave the    *)
(* slider's value and the selected neighborhood unchanged.                 *)
C8_ControlsFrame ==
    [][/\ ~Settled => (radio' = radio /\ slider' = slider)
       /\ (~Settled /\ ~RanDropdownCb) => dropdown' = dropdown
       /\ (dropdown' # dropdown \/ selectedData' # selectedData)
             => (radio' = radio /\ slider' = slider)
       /\ radio' # radio => (slider' = slider /\ dropdown' = dropdown)]_vars

\* the slider is hidden and still holds the year the user gave it
C8_Witness ==
    /\ Settled
    /\ variant = "main"
    /\ radio = "road"
    /\ SliderContainerStyle = Style("none")
    /\ slider = YearMin
    /\ dropdown = PyInt(0)

\* the callback that builds the road map
RoadMapCb ==
    IF variant = "main" THEN "update_road_map" ELSE "ntf_update_traffic_flow_map"

(* C9: in every settled state the road map is the figure built from the    *)
(* current dropdown, radio and slider values (and toggle, in proto); a     *)
(* radio change schedules the road map callback and no callback of another *)
(* figure or title, and a run of a callback changes no output but its own. *)
C9_RoadMapFollowsControls ==
    /\ [](Settled =>
            IF variant = "main"
            THEN out["roadMapFigure.figure"] = road_map(dropdown, radio, slider)
            ELSE out["trafficFlowMap.figure"]
                    = traffic_flow_map(dropdown, Bool(toggle), radio, slider))
    /\ [][radio' # radio
            => /\ RoadMapCb \in pending'
               /\ \A p \in NbhdOutputs :
                     Producer(p) \in pending' => Producer(p) = RoadMapCb]_vars
    /\ [][\A p \in OutProps(variant) :
            out'[p] # out[p]
               => (Producer(p) \in pending /\ Producer(p) \notin pending')]_vars

\* the road map recoloured by road type for a neighborhood chosen earlier
C9_Witness ==
    /\ Settled
    /\ variant = "main"
    /\ out["roadMapFigure.figure"] = road_map(PyInt(0), "road", YearMin)

(* C10: in every reachable state the dropdown value is a valid             *)
(* neighborhood id: never null, always an index into NAMES.                *)
C10_DropdownAlwaysValid == ValidId(dropdown)

----------------------------------------------------------------------------
\* the controls hold the values the layout gives them
LayoutControls ==
    /\ dropdown = FallbackValue
    /\ radio = "flow"
    /\ slider = YearMax
    /\ toggle = FALSE
    /\ selectedData = SdNone

\* every surface shows neighborhood 92, map type flow, year 2018
SurfacesShowLayoutControls ==
    /\ OutputsReflect(FallbackValue)
    /\ IF variant = "main"
       THEN out["roadMapFigure.figure"] = road_map(PyInt(Fallback), "flow", YearMax)
       ELSE out["trafficFlowMap.figure"]
               = traffic_flow_map(PyStr(Fallback), "False", "flow", YearMax)

(* C11: on initial load, with no user event, the session settles with the  *)
(* controls at neighborhood 92, map type flow, year 2018, and whenever it  *)
(* is settled on these values every surface reflects them: the             *)
(* neighborhood map is built with selected=92, the road map with           *)
(* (92, 'flow', 2018), the charts and titles with 92; no surface stays at  *)
(* the unselected figure the layout is constructed with.                   *)
C11_InitialLoadShowsFallback ==
    /\ <>(Settled /\ LayoutControls)
    /\ []((Settled /\ LayoutControls) => SurfacesShowLayoutControls)

\* the page after its initial callbacks, before any user event
C11_Witness ==
    /\ Settled
    /\ LayoutControls
    /\ variant = "main"
    /\ out["neighborhoodMapFigure.figure"] = neighborhood_map(PyInt(Fallback))
    /\ out["roadMapFigure.figure"] = road_map(PyInt(Fallback), "flow", YearMax)
    /\ out["roadMapTitle.children"] = Title(PyInt(Fallback), " Roads")
    /\ \A c \in Callbacks(variant) : err[c] = "none"

----------------------------------------------------------------------------
\* this step is a run of callback c that raised
Faulted(c) == c \in pending /\ c \notin pending' /\ err'[c] # "none"

(* C12: callbacks fail or succeed independently.  A run that raises takes  *)
(* only its own callback off the schedule and changes no output and no     *)
(* control value; once settled, every dropdown-dependent output whose      *)
(* callback did not raise was computed from the current dropdown value,    *)
(* whether or not other callbacks of the same event raised.                *)
C12_FaultsAreIndependent ==
    /\ [][\A c \in Callbacks(variant) :
            Faulted(c)
               => /\ pending' = pending \ {c}
                  /\ out' = out
                  /\ dropdown' = dropdown /\ radio' = radio
                  /\ slider' = slider /\ toggle' = toggle
                  /\ selectedData' = selectedData]_vars
    /\ [](Settled =>
            \A p \in NbhdOutputs :
                err[Producer(p)] = "none" => ShowsNbhd(p, dropdown))

\* the dropdown was cleared: the four titles raised on NAMES[None] and kept
\* their text, the figures were rebuilt for None
C12_Witness ==
    /\ Settled
    /\ variant = "main"
    /\ dropdown = PyNone
    /\ \A c \in {"update_road_map_title", "update_flow_count_title",
                 "update_speed_limit_title", "update_road_type_title"} :
          err[c] = "TypeError"
    /\ out["roadMapTitle.children"] = Title(PyInt(Fallback), " Roads")
    /\ out["neighborhoodMapFigure.figure"] = neighborhood_map(PyNone)
    /\ out["roadMapFigure.figure"] = road_map(PyNone, radio, slider)
    /\ out["roadTypeFigure.figure"] = road_types(PyNone)

----------------------------------------------------------------------------
\* the property the road map callback writes, and the figure it builds from
\* the current controls
RoadMapProp == Output(RoadMapCb)
RoadMapOfControls ==
    IF variant = "main" THEN road_map(dropdown, radio, slider)
    ELSE traffic_flow_map(dropdown, Bool(toggle), radio, slider)

====
